---- MODULE Spec2Model ----
(***************************************************************************)
(* Model of src/app.py: a Flask service that keeps one conversation per    *)
(* session token in the process-wide dict user_sessions and forwards the   *)
(* turns to a hosted completion API.                                       *)
(*                                                                         *)
(* Python values are tagged records: Null (None), Absent (a key that is    *)
(* not in the JSON object), Str(s) and Num(n).  A string is a sequence of  *)
(* atoms; " " and "\n" are whitespace atoms, every other atom stands for   *)
(* one or more non-blank characters.                                       *)
(***************************************************************************)
EXTENDS Integers, Sequences, FiniteSets, TLC

VARIABLES
    user_sessions,  \* app.py:31  token -> session record, for the issued tokens
    pending,        \* chat requests of the threaded server that are inside chat()
    flights,        \* how many chat requests the threaded server has let into
                    \* chat() past the checks (history variable)
    last,           \* the request the last step answered, its response and the
                    \* call it made to the completion API; Nothing when the step
                    \* answered no request (history variable)
    stats           \* per token: the session's first turn right after start and,
                    \* since the session was created or last reset, the chats
                    \* answered 200 and the chats that passed the checks and
                    \* were answered 500 (history variable)

vars == <<user_sessions, pending, flights, last, stats>>

----------------------------------------------------------------------------
(* Bounds *)

MaxStored == 6      \* turns the store holds, all sessions together
MaxPending == 2     \* chat requests inside chat() at the same time (SpecThreaded)
MaxFlights == 2     \* chat requests that pass the checks, in all (SpecThreaded)

----------------------------------------------------------------------------
(* Python values *)

Null == [k |-> "null"]
Absent == [k |-> "absent"]
Str(s) == [k |-> "str", s |-> s]
Num(n) == [k |-> "num", n |-> n]

IsStr(v) == v.k = "str"

\* Python truthiness: None, "", 0 and a missing key (dict.get gives None) are falsy.
Truthy(v) ==
    CASE v.k = "str" -> v.s # <<>>
      [] v.k = "num" -> v.n # 0
      [] OTHER -> FALSE

IsSpace(c) == c \in {" ", "\n", "\t"}

RECURSIVE LStrip(_)
LStrip(s) == IF s # <<>> /\ IsSpace(Head(s)) THEN LStrip(Tail(s)) ELSE s

RECURSIVE RStrip(_)
RStrip(s) ==
    IF s # <<>> /\ IsSpace(s[Len(s)]) THEN RStrip(SubSeq(s, 1, Len(s) - 1)) ELSE s

\* str.strip()
Strip(s) == LStrip(RStrip(s))

\* str.split(): the maximal runs of non-blank atoms.  Headers are built with a
\* blank between any two words, so each non-blank atom is one part.
Split(s) == SelectSeq(s, LAMBDA c : ~IsSpace(c))

\* str.lower() on the words that occur as an authorization scheme
Lower(w) ==
    CASE w \in {"Bearer", "BEARER", "bearer"} -> "bearer"
      [] w = "Basic" -> "basic"
      [] OTHER -> w

----------------------------------------------------------------------------
(* Defaults, app.py:36-44 and the environment defaults of app.py:137-139 *)

BASE_SYSTEM_PROMPT == <<"You are McAllister ... to improve their organizations.">>

DEFAULT_INITIAL_MESSAGE == <<"Hi, I'm McAllister, your copilot ... at DeGroote.">>

DEFAULT_MODEL == "gpt-5-mini"

\* float("0.2"); temperatures are counted in tenths
DEFAULT_TEMPERATURE == 2

DEFAULT_MAX_COMPLETION_TOKENS == 512

----------------------------------------------------------------------------
(* Helpers, app.py:49-83 *)

\* The values secrets.token_hex(32) can return (two of the 16^64).
Tokens == {"t1", "t2"}

\* generate_session_token: any value of the token space; the store is not
\* consulted.
generate_session_token == Tokens

NoToken == "no-token"

\* A slip: the scheme is compared as it was sent.
extract_token_CaseSensitive(auth_header) ==
    IF ~Truthy(auth_header) THEN NoToken
    ELSE LET parts == Split(auth_header.s) IN
         IF Len(parts) = 1 THEN parts[1]
         ELSE IF Len(parts) = 2 /\ parts[1] = "bearer" THEN parts[2]
         ELSE NoToken

\* extract_token(auth_header); auth_header is Null or Str(s)
extract_token(auth_header) ==
    IF ~Truthy(auth_header) THEN NoToken
    ELSE LET parts == Split(auth_header.s) IN
         IF Len(parts) = 1 THEN parts[1]
         ELSE IF Len(parts) = 2 /\ Lower(parts[1]) = "bearer" THEN parts[2]
         ELSE NoToken

\* (v or "").strip(), for the values that have a strip method
OrEmptyStrip(v) == IF Truthy(v) THEN Strip(v.s) ELSE <<>>

\* "\n".join(extras)
RECURSIVE JoinLines(_)
JoinLines(extras) ==
    IF extras = <<>> THEN <<>>
    ELSE IF Len(extras) = 1 THEN extras[1]
    ELSE extras[1] \o <<"\n">> \o JoinLines(Tail(extras))

\* A slip: the cohort line is put before the name line.
build_system_prompt_CohortFirst(system_prompt_from_client, meta) ==
    LET stripped == OrEmptyStrip(system_prompt_from_client)
        base == IF stripped # <<>> THEN stripped ELSE BASE_SYSTEM_PROMPT
        user_name == OrEmptyStrip(meta.userName)
        cohort_id == OrEmptyStrip(meta.cohortId)
        nameLine == <<"Learner name: ">> \o user_name
                        \o <<". Address them by name when natural.">>
        cohortLine == <<"Learner cohort: ">> \o cohort_id \o <<".">>
        extras == (IF cohort_id # <<>> THEN <<cohortLine>> ELSE <<>>)
                      \o (IF user_name # <<>> THEN <<nameLine>> ELSE <<>>)
    IN  IF extras # <<>>
        THEN RStrip(base) \o <<"\n", "\n">> \o JoinLines(extras)
        ELSE base

build_system_prompt(system_prompt_from_client, meta) ==
    LET stripped == OrEmptyStrip(system_prompt_from_client)
        base == IF stripped # <<>> THEN stripped ELSE BASE_SYSTEM_PROMPT
        user_name == OrEmptyStrip(meta.userName)
        cohort_id == OrEmptyStrip(meta.cohortId)
        nameLine == <<"Learner name: ">> \o user_name
                        \o <<". Address them by name when natural.">>
        cohortLine == <<"Learner cohort: ">> \o cohort_id \o <<".">>
        extras == (IF user_name # <<>> THEN <<nameLine>> ELSE <<>>)
                      \o (IF cohort_id # <<>> THEN <<cohortLine>> ELSE <<>>)
    IN  IF extras # <<>>
        THEN RStrip(base) \o <<"\n", "\n">> \o JoinLines(extras)
        ELSE base

Turn(role, content) == [role |-> role, content |-> content]

SystemTurn(system_prompt) == Turn("system", system_prompt)

----------------------------------------------------------------------------
(* Requests *)

\* Authorization headers: absent, the raw token and 'Bearer <token>'.
Headers == {Null, Str(<<"t1">>), Str(<<"Bearer", " ", "t2">>)}

StartFields(n, c, p, i) ==
    [userName |-> n, cohortId |-> c, systemPrompt |-> p, initialMessage |-> i]

\* json is what request.get_json(silent=True) gives when the body is read as
\* JSON: a JSON object (its fields are the request's fields), None for a
\* body that does not parse, or a non-empty JSON array.  Without a JSON body
\* the fields are the query parameters.
StartRequest(method, is_json, json, fields) ==
    [method |-> method, is_json |-> is_json, json |-> json, fields |-> fields]

NoFields == StartFields(Absent, Absent, Absent, Absent)

StartRequests ==
    {StartRequest("POST", TRUE, "object", NoFields),
     StartRequest("POST", TRUE, "object",
                  StartFields(Str(<<" ", "Sam">>), Str(<<"c7", " ">>),
                              Str(<<"p", " ">>), Str(<<"hello">>))),
     StartRequest("POST", TRUE, "object",
                  StartFields(Num(7), Null, Str(<<" ">>), Str(<<>>))),
     StartRequest("POST", TRUE, "malformed", NoFields),
     StartRequest("POST", TRUE, "array", NoFields),
     StartRequest("GET", FALSE, "none",
                  StartFields(Str(<<"Sam">>), Str(<<"c7">>), Str(<<"p">>),
                              Str(<<"hello">>)))}

ChatFields(m, t, x, c) ==
    [message |-> m, temperature |-> t, max_completion_tokens |-> x, context |-> c]

ChatRequest(is_json, json, fields) ==
    [is_json |-> is_json, json |-> json, fields |-> fields]

NoChatFields == ChatFields(Absent, Absent, Absent, Absent)

ChatRequests ==
    {ChatRequest(FALSE, "none", NoChatFields),
     ChatRequest(TRUE, "malformed", NoChatFields),
     ChatRequest(TRUE, "array", NoChatFields)}
        \cup {ChatRequest(TRUE, "object", f) :
                f \in {NoChatFields,
                       ChatFields(Str(<<>>), Absent, Absent, Absent),
                       ChatFields(Num(7), Absent, Absent, Str(<<"ctx">>)),
                       ChatFields(Str(<<"hi">>), Absent, Absent, Absent),
                       ChatFields(Str(<<"hi">>), Absent, Absent, Str(<<>>)),
                       ChatFields(Str(<<"hi">>), Absent, Absent, Str(<<"ctx">>)),
                       ChatFields(Str(<<"hi">>), Num(7), Num(64), Absent),
                       ChatFields(Str(<<"hi">>), Str(<<"hot">>), Absent, Absent)}}

\* What the completion API can do with a call: answer with a text, or fail.
Replies == {<<"reply">>}

GatewayOutcomes == {[ok |-> TRUE, text |-> r] : r \in Replies} \cup {[ok |-> FALSE]}

----------------------------------------------------------------------------
(* The observable record of a step *)

NoCall == [invoked |-> FALSE]

\* A slip: only the last turn is passed to the completion API.
Call_LastTurn(model, messages, temperature, max_completion_tokens, raised) ==
    [invoked |-> TRUE, model |-> model, messages |-> <<messages[Len(messages)]>>,
     temperature |-> temperature,
     max_completion_tokens |-> max_completion_tokens, raised |-> raised]

\* client.chat.completions.create(...) with its arguments; raised tells
\* whether the call ended in an exception.
Call(model, messages, temperature, max_completion_tokens, raised) ==
    [invoked |-> TRUE, model |-> model, messages |-> messages,
     temperature |-> temperature,
     max_completion_tokens |-> max_completion_tokens, raised |-> raised]

\* What happened to a chat while it ran: the index at which its user turn
\* was appended, whether a reset emptied its session's history, and whether
\* a start replaced its session in the store.
Flight(user_at, reset, replaced) ==
    [user_at |-> user_at, reset |-> reset, replaced |-> replaced]

NoFlight == Flight(0, FALSE, FALSE)

Handled(op, auth, req, status, call, token, flight) ==
    [op |-> op, auth |-> auth, req |-> req, status |-> status, call |-> call,
     token |-> token, flight |-> flight]

NewStats(session) == [first |-> session.messages[1], ok |-> 0, failed |-> 0]

RECURSIVE TotalTurns(_)
TotalTurns(sessions) ==
    IF DOMAIN sessions = {} THEN 0
    ELSE LET t == CHOOSE x \in DOMAIN sessions : TRUE IN
         Len(sessions[t].messages)
             + TotalTurns([x \in DOMAIN sessions \ {t} |-> sessions[x]])

\* A request inside chat(): its locals (token, the session it holds, the
\* parameters read at app.py:168-173) and the line it is at.  session is 0
\* while the thread's session dict is the one in the store; after a start
\* has stored a new dict under the token, it numbers the dict the thread
\* still holds, whose history is then kept in orphan.
Thread(auth, req, token, pc, temperature, max_completion_tokens) ==
    [auth |-> auth, req |-> req, token |-> token, pc |-> pc,
     temperature |-> temperature,
     max_completion_tokens |-> max_completion_tokens,
     session |-> 0, orphan |-> <<>>, call |-> NoCall, flight |-> NoFlight]

\* app.py:134: user_sessions[token] = {...} leaves the threads that hold the
\* old dict with a dict that is no longer in the store.
Replaced(threads, token, sessions) ==
    LET used == {threads[i].session : i \in DOMAIN threads}
        fresh == CHOOSE n \in 1..(Len(threads) + 1) : n \notin used
    IN  [i \in DOMAIN threads |->
            IF threads[i].token = token /\ threads[i].session = 0
            THEN [threads[i] EXCEPT !.session = fresh,
                                    !.orphan = sessions[token].messages,
                                    !.flight.replaced = TRUE]
            ELSE threads[i]]

\* app.py:217 gives the session dict a new list: the threads that hold the
\* dict go on with that list.
WasReset(threads, token) ==
    [i \in DOMAIN threads |->
        IF threads[i].token = token /\ threads[i].session = 0
        THEN [threads[i] EXCEPT !.flight.reset = TRUE]
        ELSE threads[i]]

\* A slip: storing under a key drops the other keys.
Put_Only(f, key, val) == [x \in {key} |-> val]

Put(f, key, val) == [x \in DOMAIN f \cup {key} |-> IF x = key THEN val ELSE f[x]]

Nothing == Handled("none", Null, Null, 0, NoCall, NoToken, NoFlight)

Init ==
    /\ user_sessions = <<>>
    /\ pending = <<>>
    /\ flights = 0
    /\ last = Nothing
    /\ stats = <<>>

----------------------------------------------------------------------------
(* GET /api/health, app.py:88-90 *)

health ==
    /\ last' = Handled("health", Null, Null, 200, NoCall, NoToken, NoFlight)
    /\ UNCHANGED <<user_sessions, pending, flights, stats>>

----------------------------------------------------------------------------
(* POST|GET /api/start, app.py:92-143 *)

\* app.py:104-113: the JSON body of a POST that says it is JSON, else the
\* query parameters.
StartUsesJson(req) == req.method = "POST" /\ req.is_json

StartPayload(req) ==
    IF StartUsesJson(req) /\ req.json = "malformed" THEN NoFields ELSE req.fields

\* payload.get needs a dict, .strip() a str: anything else raises
\* AttributeError, which Flask answers with 500.
HasStrip(v) == ~Truthy(v) \/ IsStr(v)

StartRaises(req) ==
    \/ StartUsesJson(req) /\ req.json = "array"
    \/ \E f \in DOMAIN StartPayload(req) : ~HasStrip(StartPayload(req)[f])

\* (payload.get(f) or "").strip() or None
Normalize(v) == IF OrEmptyStrip(v) = <<>> THEN Null ELSE Str(OrEmptyStrip(v))

\* app.py:116-129
StartMeta(req) ==
    LET payload == StartPayload(req) IN
    [userName |-> Normalize(payload.userName),
     cohortId |-> Normalize(payload.cohortId),
     systemPrompt |-> Normalize(payload.systemPrompt),
     initialMessage |->
         IF OrEmptyStrip(payload.initialMessage) = <<>>
         THEN Str(DEFAULT_INITIAL_MESSAGE)
         ELSE Str(OrEmptyStrip(payload.initialMessage))]

\* A slip: the greeting is stored as the first assistant turn.
NewSession_Greeting(system_prompt, meta) ==
    [messages |-> <<SystemTurn(system_prompt),
                    Turn("assistant", meta.initialMessage.s)>>,
     meta |-> meta,
     model |-> DEFAULT_MODEL,
     default_temperature |-> DEFAULT_TEMPERATURE,
     default_max_completion_tokens |-> DEFAULT_MAX_COMPLETION_TOKENS]

\* app.py:134-140
NewSession(system_prompt, meta) ==
    [messages |-> <<SystemTurn(system_prompt)>>,
     meta |-> meta,
     model |-> DEFAULT_MODEL,
     default_temperature |-> DEFAULT_TEMPERATURE,
     default_max_completion_tokens |-> DEFAULT_MAX_COMPLETION_TOKENS]

start_session(req, token) ==
    LET system_prompt_from_client == Normalize(StartPayload(req).systemPrompt)
        meta == StartMeta(req)
        system_prompt == build_system_prompt(system_prompt_from_client, meta)
        sessions == Put(user_sessions, token, NewSession(system_prompt, meta))
    IN
    IF StartRaises(req)
    THEN /\ last' = Handled("start", Null, req, 500, NoCall, NoToken, NoFlight)
         /\ UNCHANGED <<user_sessions, pending, flights, stats>>
    ELSE /\ TotalTurns(sessions) <= MaxStored
         /\ user_sessions' = sessions
         /\ stats' = Put(stats, token, NewStats(sessions[token]))
         /\ last' = Handled("start", Null, req, 200, NoCall, token, NoFlight)
         /\ pending' = Replaced(pending, token, user_sessions)
         /\ UNCHANGED flights

----------------------------------------------------------------------------
(* POST /api/chat, app.py:145-204 *)

\* app.py:163: request.get_json(silent=True) or {}
ChatData(req) == IF req.json = "malformed" THEN NoChatFields ELSE req.fields

\* A slip: the body is checked before the token.
ChatCheck_BodyFirst(sessions, auth, req) ==
    LET token == extract_token(auth) IN
    IF ~req.is_json THEN 400
    ELSE IF token = NoToken \/ token \notin DOMAIN sessions THEN 401
    ELSE IF req.json = "array" THEN 500
    ELSE IF ~Truthy(ChatData(req).message) \/ ~IsStr(ChatData(req).message) THEN 400
    ELSE 0

\* app.py:156-166: the status the checks answer with, 0 when they all pass.
\* data.get on a JSON array raises AttributeError outside the try: 500.
ChatCheck(sessions, auth, req) ==
    LET token == extract_token(auth) IN
    IF token = NoToken \/ token \notin DOMAIN sessions THEN 401
    ELSE IF ~req.is_json THEN 400
    ELSE IF req.json = "array" THEN 500
    ELSE IF ~Truthy(ChatData(req).message) \/ ~IsStr(ChatData(req).message) THEN 400
    ELSE 0

\* A slip: the request's value is not looked at.
GetOr_Default(v, default) == Num(default)

\* data.get(key, default), app.py:168-172
GetOr(v, default) == IF v = Absent THEN Num(default) ELSE v

\* float(v) and int(v) take a number or a string that spells one (int only
\* one without a fraction) and raise on everything else, None included.
\* Temperatures are counted in tenths.
NumericWords == {"0.7", "64"}

FloatConverts(v) ==
    v.k = "num" \/ (IsStr(v) /\ Strip(v.s) \in {<<w>> : w \in NumericWords})

IntConverts(v) == v.k = "num" \/ (IsStr(v) /\ Strip(v.s) = <<"64">>)

FloatOf(v) ==
    IF v.k = "num" THEN v.n ELSE IF Strip(v.s) = <<"0.7">> THEN 7 ELSE 640

IntOf(v) == IF v.k = "num" THEN v.n ELSE 64

\* f"{v}"
Format(v) == IF IsStr(v) THEN v.s ELSE <<ToString(v.n)>>

\* app.py:178-182
ContextTurn(per_request_context) ==
    Turn("system", <<"Context for this turn: ">> \o Format(per_request_context))

\* A slip: the context takes the place of the first turn.
WithContext_Replace(messages, per_request_context) ==
    IF Truthy(per_request_context)
    THEN [messages EXCEPT ![1] = ContextTurn(per_request_context)]
    ELSE messages

WithContext(messages, per_request_context) ==
    IF Truthy(per_request_context)
    THEN Append(messages, ContextTurn(per_request_context))
    ELSE messages

\* app.py:185
WithUser(messages, user_message) == Append(messages, Turn("user", user_message.s))

\* app.py:198
WithAssistant(messages, response_text) ==
    Append(messages, Turn("assistant", response_text))

\* A slip: one history shared by all the sessions.
SetMessages_Shared(sessions, token, messages) ==
    [t \in DOMAIN sessions |-> [sessions[t] EXCEPT !.messages = messages]]

\* session["messages"] of the session stored under token becomes messages
SetMessages(sessions, token, messages) ==
    [sessions EXCEPT ![token].messages = messages]

\* A slip: the except block takes the unanswered user turn back.
ChatFailed_Rollback(sessions, token, sent) ==
    SetMessages(sessions, token, SubSeq(sent, 1, Len(sent) - 1))

\* app.py:201-204: the except block answers 500 and leaves the turns
\* appended before the call in the history.
ChatFailed(sessions, token, sent) == SetMessages(sessions, token, sent)

Answered(st, token, status) ==
    IF status = 200
    THEN [st EXCEPT ![token].ok = @ + 1]
    ELSE [st EXCEPT ![token].failed = @ + 1]

\* A slip: the context turn is appended after the user turn.
Sent_ContextLast(session, data) ==
    WithContext(WithUser(session.messages, data.message), data.context)

\* The turns the request appends before the completion call.
Sent(session, data) ==
    WithUser(WithContext(session.messages, data.context), data.message)

\* The whole handler, run without another request in between.  outcome is
\* what the completion API does when it is called.
chat(auth, req, outcome) ==
    LET token == extract_token(auth)
        status == ChatCheck(user_sessions, auth, req)
        data == ChatData(req)
        session == user_sessions[token]
        temperature == GetOr(data.temperature, session.default_temperature)
        max_completion_tokens ==
            GetOr(data.max_completion_tokens, session.default_max_completion_tokens)
        call == Call(session.model, Sent(session, data), FloatOf(temperature),
                     IntOf(max_completion_tokens), ~outcome.ok)
        flight == Flight(Len(Sent(session, data)), FALSE, FALSE)
    IN
    IF status # 0
    THEN /\ last' = Handled("chat", auth, req, status, NoCall, token, NoFlight)
         /\ UNCHANGED <<user_sessions, pending, flights, stats>>
    ELSE /\ TotalTurns(SetMessages(user_sessions, token, Sent(session, data)))
                < MaxStored
         /\ IF ~FloatConverts(temperature) \/ ~IntConverts(max_completion_tokens)
            THEN /\ user_sessions' = ChatFailed(user_sessions, token, Sent(session, data))
                 /\ last' = Handled("chat", auth, req, 500, NoCall, token, flight)
                 /\ stats' = Answered(stats, token, 500)
            ELSE IF outcome.ok
            THEN /\ user_sessions' =
                        SetMessages(user_sessions, token,
                                    WithAssistant(Sent(session, data), outcome.text))
                 /\ last' = Handled("chat", auth, req, 200, call, token, flight)
                 /\ stats' = Answered(stats, token, 200)
            ELSE /\ user_sessions' = ChatFailed(user_sessions, token, Sent(session, data))
                 /\ last' = Handled("chat", auth, req, 500, call, token, flight)
                 /\ stats' = Answered(stats, token, 500)
         /\ UNCHANGED <<pending, flights>>

----------------------------------------------------------------------------
(* POST /api/reset, app.py:206-218 *)

\* A slip: the reset forgets the stored meta.
ResetMessages_Default(session) == <<SystemTurn(BASE_SYSTEM_PROMPT)>>

\* app.py:215-217
ResetMessages(session) ==
    <<SystemTurn(build_system_prompt(session.meta.systemPrompt, session.meta))>>

reset_session(auth) ==
    LET token == extract_token(auth) IN
    IF token = NoToken \/ token \notin DOMAIN user_sessions
    THEN /\ last' = Handled("reset", auth, Null, 401, NoCall, token, NoFlight)
         /\ UNCHANGED <<user_sessions, pending, flights, stats>>
    ELSE /\ user_sessions' =
                SetMessages(user_sessions, token, ResetMessages(user_sessions[token]))
         /\ stats' = [stats EXCEPT ![token].ok = 0, ![token].failed = 0]
         /\ last' = Handled("reset", auth, Null, 200, NoCall, token, NoFlight)
         /\ pending' = WasReset(pending, token)
         /\ UNCHANGED flights

----------------------------------------------------------------------------
(* The server handling one request at a time *)

Next ==
    \/ health
    \/ \E req \in StartRequests, token \in generate_session_token :
          start_session(req, token)
    \/ \E auth \in Headers, req \in ChatRequests, outcome \in GatewayOutcomes :
          chat(auth, req, outcome)
    \/ \E auth \in Headers : reset_session(auth)

Spec == Init /\ [][Next]_vars

----------------------------------------------------------------------------
(* The threaded server (app.run serves each request in a thread of its own): *)
(* chat() runs line by line, and other requests run between its appends and *)
(* while it waits for the completion API.                                   *)

ThreadedHeaders == {Null, Str(<<"t1">>)}

ThreadedStartRequests == {StartRequest("POST", TRUE, "object", NoFields)}

ThreadedChatRequests ==
    {ChatRequest(TRUE, "object", f) :
        f \in {ChatFields(Str(<<"hi">>), Absent, Absent, Absent),
               ChatFields(Str(<<"hi">>), Str(<<"hot">>), Absent, Str(<<"ctx">>))}}

\* session["messages"] of the dict the thread holds
Held(th) ==
    IF th.session = 0 THEN user_sessions[th.token].messages ELSE th.orphan

\* The threads after thread i has given the dict it holds the history
\* messages: the threads that hold the same orphaned dict see it too.
Appended(threads, i, messages) ==
    [j \in DOMAIN threads |->
        IF threads[j].session # 0 /\ threads[j].session = threads[i].session
        THEN [threads[j] EXCEPT !.orphan = messages]
        ELSE threads[j]]

\* The store after the thread has given the dict it holds the history messages.
Stored(th, messages) ==
    IF th.session = 0
    THEN SetMessages(user_sessions, th.token, messages)
    ELSE user_sessions

Remove(threads, i) == SubSeq(threads, 1, i - 1) \o SubSeq(threads, i + 1, Len(threads))

\* The turns a thread may still append.
Room(pc) ==
    CASE pc = "context" -> 3
      [] pc = "user" -> 2
      [] OTHER -> 1

RECURSIVE RoomOf(_)
RoomOf(threads) ==
    IF threads = <<>> THEN 0 ELSE Room(Head(threads).pc) + RoomOf(Tail(threads))

\* app.py:156-175: the checks and the reads of the request and the session
chat_enter(auth, req) ==
    LET token == extract_token(auth)
        status == ChatCheck(user_sessions, auth, req)
        data == ChatData(req)
        session == user_sessions[token]
        temperature == GetOr(data.temperature, session.default_temperature)
        max_completion_tokens ==
            GetOr(data.max_completion_tokens, session.default_max_completion_tokens)
        pc == IF Truthy(data.context) THEN "context" ELSE "user"
    IN
    IF status # 0
    THEN /\ last' = Handled("chat", auth, req, status, NoCall, token, NoFlight)
         /\ UNCHANGED <<user_sessions, pending, flights, stats>>
    ELSE /\ Len(pending) < MaxPending
         /\ flights < MaxFlights
         /\ flights' = flights + 1
         /\ TotalTurns(user_sessions) + RoomOf(pending) + Room(pc) <= MaxStored
         /\ pending' = Append(pending, Thread(auth, req, token, pc, temperature,
                                              max_completion_tokens))
         /\ last' = Nothing
         /\ UNCHANGED <<user_sessions, stats>>

\* app.py:178-182
chat_context(i) ==
    LET th == pending[i]
        messages == WithContext(Held(th), ChatData(th.req).context)
    IN  /\ th.pc = "context"
        /\ user_sessions' = Stored(th, messages)
        /\ pending' = [Appended(pending, i, messages) EXCEPT ![i].pc = "user"]
        /\ last' = Nothing
        /\ UNCHANGED <<flights, stats>>

\* app.py:185
chat_user(i) ==
    LET th == pending[i]
        messages == WithUser(Held(th), ChatData(th.req).message)
    IN  /\ th.pc = "user"
        /\ user_sessions' = Stored(th, messages)
        /\ pending' = [Appended(pending, i, messages) EXCEPT
                          ![i].pc = "call",
                          ![i].flight.user_at = Len(messages)]
        /\ last' = Nothing
        /\ UNCHANGED <<flights, stats>>

\* app.py:188-194: the arguments are converted and the request is sent; a
\* conversion that raises ends the request in the except block.
chat_call(i) ==
    LET th == pending[i]
        model == IF th.session = 0 THEN user_sessions[th.token].model
                 ELSE DEFAULT_MODEL
    IN  /\ th.pc = "call"
        /\ UNCHANGED flights
        /\ IF ~FloatConverts(th.temperature) \/ ~IntConverts(th.max_completion_tokens)
           THEN /\ last' = Handled("chat", th.auth, th.req, 500, NoCall, th.token,
                                   th.flight)
                /\ stats' = IF th.session = 0
                            THEN Answered(stats, th.token, 500)
                            ELSE stats
                /\ pending' = Remove(pending, i)
                /\ UNCHANGED user_sessions
           ELSE /\ pending' =
                      [pending EXCEPT
                          ![i].pc = "wait",
                          ![i].call = Call(model, Held(th), FloatOf(th.temperature),
                                           IntOf(th.max_completion_tokens), FALSE)]
                /\ last' = Nothing
                /\ UNCHANGED <<user_sessions, stats>>

\* app.py:195-204: the completion API answers or fails
chat_reply(i, outcome) ==
    LET th == pending[i]
        messages == WithAssistant(Held(th), outcome.text)
    IN  /\ th.pc = "wait"
        /\ UNCHANGED flights
        /\ IF outcome.ok
           THEN /\ user_sessions' = Stored(th, messages)
                /\ pending' = Remove(Appended(pending, i, messages), i)
                /\ last' = Handled("chat", th.auth, th.req, 200, th.call, th.token,
                                   th.flight)
           ELSE /\ pending' = Remove(pending, i)
                /\ last' = Handled("chat", th.auth, th.req, 500,
                                   [th.call EXCEPT !.raised = TRUE], th.token,
                                   th.flight)
                /\ UNCHANGED user_sessions
        /\ stats' = IF th.session = 0
                    THEN Answered(stats, th.token, IF outcome.ok THEN 200 ELSE 500)
                    ELSE stats

NextThreaded ==
    \/ health
    \/ \E req \in ThreadedStartRequests, token \in generate_session_token :
          start_session(req, token)
    \/ \E auth \in ThreadedHeaders, req \in ThreadedChatRequests :
          chat_enter(auth, req)
    \/ \E i \in DOMAIN pending : chat_context(i)
    \/ \E i \in DOMAIN pending : chat_user(i)
    \/ \E i \in DOMAIN pending : chat_call(i)
    \/ \E i \in DOMAIN pending, outcome \in GatewayOutcomes : chat_reply(i, outcome)
    \/ \E auth \in ThreadedHeaders : reset_session(auth)

SpecThreaded == Init /\ [][NextThreaded]_vars

----------------------------------------------------------------------------
(* The server handling one request at a time, given Authorization headers  *)
(* of every shape extract_token tells apart                                *)

\* Words in the place of the token: the tokens start can issue and one it
\* never issues.
TokenWords == Tokens \cup {"t3"}

Schemes == {"Bearer", "bearer", "BEARER", "Basic"}

\* No header, an empty and a blank one, one word, a scheme and a word with a
\* blank or a tab between them, two words with no scheme, and three words.
ExtractHeaders ==
    {Null, Str(<<>>), Str(<<" ">>)}
        \cup {Str(<<t>>) : t \in TokenWords \cup {"Bearer"}}
        \cup {Str(<<s, b, t>>) : s \in Schemes, b \in {" ", "\t"}, t \in TokenWords}
        \cup {Str(<<"t1", " ", "t1">>),
              Str(<<"Bearer", " ", "t1", " ", "t1">>),
              Str(<<"t1", " ", "t2", " ", "t3">>)}

ExtractStartRequests == {StartRequest("POST", TRUE, "object", NoFields)}

ExtractChatRequests ==
    {ChatRequest(FALSE, "none", NoChatFields),
     ChatRequest(TRUE, "object", ChatFields(Str(<<"hi">>), Absent, Absent, Absent))}

NextExtract ==
    \/ \E req \in ExtractStartRequests, token \in generate_session_token :
          start_session(req, token)
    \/ \E auth \in ExtractHeaders, req \in ExtractChatRequests,
           outcome \in GatewayOutcomes :
          chat(auth, req, outcome)
    \/ \E auth \in ExtractHeaders : reset_session(auth)

SpecExtract == Init /\ [][NextExtract]_vars

----------------------------------------------------------------------------
(* build_system_prompt on its own, app.py:70-83: the arguments are drawn    *)
(* from the values its annotations admit, str or None for the override and *)
(* for what meta.get returns, and the function is applied to them.          *)

PromptOverrides ==
    {Null, Str(<<>>), Str(<<" ">>), Str(<<"p">>), Str(<<" ", "p", "\n">>)}

PromptNames ==
    {Absent, Null, Str(<<>>), Str(<<" ">>), Str(<<"Sam">>), Str(<<" ", "Sam", " ">>)}

PromptCohorts == {Absent, Null, Str(<<>>), Str(<<"\t">>), Str(<<"c7">>)}

PromptMeta(user_name, cohort_id) == [userName |-> user_name, cohortId |-> cohort_id]

\* The arguments of a call that has not run yet
PromptArgs(system_prompt_from_client, meta) ==
    [op |-> "args", system_prompt_from_client |-> system_prompt_from_client,
     meta |-> meta]

\* The arguments of a call and what it returned
Built(system_prompt_from_client, meta, system_prompt) ==
    [op |-> "build_system_prompt",
     system_prompt_from_client |-> system_prompt_from_client,
     meta |-> meta, system_prompt |-> system_prompt]

InitPrompt ==
    /\ user_sessions = <<>>
    /\ pending = <<>>
    /\ flights = 0
    /\ stats = <<>>
    /\ \E p \in PromptOverrides, n \in PromptNames, c \in PromptCohorts :
          last = PromptArgs(p, PromptMeta(n, c))

call_build_system_prompt ==
    /\ last.op = "args"
    /\ last' = Built(last.system_prompt_from_client, last.meta,
                     build_system_prompt(last.system_prompt_from_client, last.meta))
    /\ UNCHANGED <<user_sessions, pending, flights, stats>>

NextPrompt == call_build_system_prompt

SpecPrompt == InitPrompt /\ [][NextPrompt]_vars

----------------------------------------------------------------------------
(* Properties of the server handling one request at a time *)

Roles(messages) == [i \in 1..Len(messages) |-> messages[i].role]

ValidToken(auth) == extract_token(auth) \in DOMAIN user_sessions

\* C1: after N chats on one token, all answered 200 since the session was
\* created or last reset, the history is the system turn followed by N
\* (user, assistant) pairs: 1 + 2N turns.
C1_TurnCount ==
    \A t \in DOMAIN user_sessions :
        stats[t].failed = 0 =>
            LET messages == user_sessions[t].messages
                N == stats[t].ok
            IN  /\ Len(messages) = 1 + 2 * N
                /\ messages[1].role = "system"
                /\ \A i \in 1..N : /\ messages[2 * i].role = "user"
                                   /\ messages[2 * i + 1].role = "assistant"

\* C2: every session's history holds exactly one system turn, and it is the
\* first one.
C2_OneSystemTurn ==
    \A t \in DOMAIN user_sessions :
        LET messages == user_sessions[t].messages IN
        /\ messages[1].role = "system"
        /\ Cardinality({i \in 1..Len(messages) : messages[i].role = "system"}) = 1

\* C4: a chat or reset whose header gives no token, or a token that is no key
\* of the store, is answered 401 whatever its body is, calls the completion
\* API not at all and leaves the store as it was.
C4_Unauthorized ==
    [][(last'.op \in {"chat", "reset"} /\ ~ValidToken(last'.auth))
          => /\ last'.status = 401
             /\ ~last'.call.invoked
             /\ user_sessions' = user_sessions]_vars

C4_Witness ==
    /\ last.op = "chat"
    /\ last.status = 401
    /\ last.auth # Null
    /\ ~last.req.is_json
    /\ \E t \in DOMAIN user_sessions : Len(user_sessions[t].messages) > 1

\* The bodies C5 is about: not JSON, or no message, an empty one, or one that
\* is no string.
BadBody(req) ==
    \/ ~req.is_json
    \/ req.json # "object"
    \/ req.fields.message = Absent
    \/ ~IsStr(req.fields.message)
    \/ req.fields.message = Str(<<>>)

\* C5: a chat with a valid token and such a body is answered 400, calls the
\* completion API not at all and leaves the store as it was.
C5_BadRequest ==
    [][(last'.op = "chat" /\ ValidToken(last'.auth) /\ BadBody(last'.req))
          => /\ last'.status = 400
             /\ ~last'.call.invoked
             /\ user_sessions' = user_sessions]_vars

C5_Witness ==
    /\ last.op = "chat"
    /\ last.status = 400
    /\ last.req.is_json
    /\ Len(user_sessions[last.token].messages) > 1

\* C6: a chat that passed the checks and whose completion call failed is
\* answered 500 and leaves the history as it was before the request plus the
\* context turn, when a context was given, plus the user turn, with no
\* assistant turn; the call of a later chat answered 200 carries the whole
\* stored history, unanswered user turns included, and then its own turns.
IsPrefix(a, b) == Len(a) <= Len(b) /\ SubSeq(b, 1, Len(a)) = a

C7_Reset ==
    [][(last'.op = "reset" /\ last'.status = 200) =>
          LET t == last'.token
              before == user_sessions[t]
              after == user_sessions'[t]
          IN  /\ Len(after.messages) = 1
              /\ after.messages[1] =
                    [role |-> "system",
                     content |-> build_system_prompt(before.meta.systemPrompt,
                                                     before.meta)]
              /\ after.messages[1] = stats[t].first
              /\ after = [before EXCEPT !.messages = after.messages]
              /\ (Len(before.messages) = 1 /\ stats[t].ok + stats[t].failed = 0)
                    => after = before]_vars

\* A reset of a session with a history of answered and unanswered chats, whose
\* meta gives another prompt than the default one.
C7_Witness ==
    /\ last.op = "reset"
    /\ last.status = 200
    /\ user_sessions[last.token].meta.userName # Null
    /\ user_sessions[last.token].messages[1].content # BASE_SYSTEM_PROMPT
    /\ \E t \in DOMAIN user_sessions :
          t # last.token /\ Len(user_sessions[t].messages) > 1

C10_ContextTransient ==
    (last.op = "chat" /\ last.call.invoked) =>
        LET sent == last.call.messages IN
        \A i \in 2..Len(sent) :
            sent[i].role = "system" =>
                i = Len(sent) - 1 /\ Truthy(last.req.fields.context)

C12_StartNeverFails ==
    [][last'.op = "start" =>
          /\ last'.status = 200
          /\ last'.token \in DOMAIN user_sessions'
          /\ LET meta == user_sessions'[last'.token].meta
                 payload == IF last'.req.json = "object" \/ ~last'.req.is_json
                            THEN last'.req.fields
                            ELSE NoFields
             IN  /\ Truthy(meta.initialMessage)
                 /\ \A f \in {"userName", "cohortId", "systemPrompt"} :
                       (payload[f] \in {Absent, Null} \/ Strip(payload[f].s) = <<>>)
                           => meta[f] = Null]_vars

\* C13: a header that is one word, and a header of the word bearer in any
\* case followed by one word, both give that word as the token: the request
\* is answered 401 exactly when the word is no key of the store and acts on
\* the session stored under the word otherwise, whichever of the two forms
\* carried it.  No header, an empty or blank header, two words of which the
\* first is not bearer, and three or more words give no token: the request
\* is answered 401 and the store stays as it was.
C13_TokenExtraction ==
    [][last'.op \in {"chat", "reset"} =>
          LET auth == last'.auth
              words == IF auth = Null THEN <<>> ELSE Split(auth.s)
              bearer == Len(words) = 2 /\ words[1] \in {"Bearer", "bearer", "BEARER"}
          IN  /\ (Len(words) = 1 \/ bearer) =>
                    /\ last'.token = words[Len(words)]
                    /\ last'.status = 401 <=> last'.token \notin DOMAIN user_sessions
                    /\ last'.status = 401 => user_sessions' = user_sessions
                    /\ \A t \in DOMAIN user_sessions \ {last'.token} :
                          user_sessions'[t] = user_sessions[t]
                    /\ (last'.op = "reset" /\ last'.status = 200) =>
                          Len(user_sessions'[last'.token].messages) = 1
                    /\ (last'.op = "chat" /\ last'.status \in {200, 500}) =>
                          Len(user_sessions'[last'.token].messages)
                              > Len(user_sessions[last'.token].messages)
              /\ (Len(words) = 0 \/ (Len(words) = 2 /\ ~bearer)
                     \/ Len(words) >= 3) =>
                    /\ last'.token = NoToken
                    /\ last'.status = 401
                    /\ user_sessions' = user_sessions]_vars

\* A chat sent with 'BEARER<tab>t1' was answered 200 on the session that
\* holds the turns of an earlier chat on t1, while another session exists.
C13_Witness ==
    /\ last.op = "chat"
    /\ last.status = 200
    /\ last.auth = Str(<<"BEARER", "\t", "t1">>)
    /\ Len(user_sessions["t1"].messages) = 5
    /\ "t2" \in DOMAIN user_sessions

\* C14: what build_system_prompt returns is fixed by the override and the
\* meta.  Its base is the trimmed override when that is not empty and the
\* default template otherwise; a name line is there exactly when
\* meta.userName is non-empty after trimming and a cohort line exactly when
\* meta.cohortId is; with an extra the result is the base, a blank line and
\* the extras, name before cohort, one per line, and without one it is the
\* base alone.
C14_PromptBuilder ==
    last.op = "build_system_prompt" =>
        LET Trimmed(v) == IF v \in {Absent, Null} THEN <<>> ELSE Strip(v.s)
            override == Trimmed(last.system_prompt_from_client)
            name == Trimmed(last.meta.userName)
            cohort == Trimmed(last.meta.cohortId)
            base == IF override # <<>> THEN override ELSE BASE_SYSTEM_PROMPT
            nameLine == <<"Learner name: ">> \o name
                            \o <<". Address them by name when natural.">>
            cohortLine == <<"Learner cohort: ">> \o cohort \o <<".">>
        IN  last.system_prompt =
                CASE name = <<>> /\ cohort = <<>> -> base
                  [] name # <<>> /\ cohort = <<>> ->
                        base \o <<"\n", "\n">> \o nameLine
                  [] name = <<>> /\ cohort # <<>> ->
                        base \o <<"\n", "\n">> \o cohortLine
                  [] OTHER ->
                        base \o <<"\n", "\n">> \o nameLine \o <<"\n">> \o cohortLine

\* The prompt built from an override, a name and a cohort, the first two
\* given with blanks around them.
C14_Witness ==
    /\ last.op = "build_system_prompt"
    /\ last.system_prompt_from_client = Str(<<" ", "p", "\n">>)
    /\ last.meta = PromptMeta(Str(<<" ", "Sam", " ">>), Str(<<"c7">>))
    /\ last.system_prompt =
          <<"p", "\n", "\n",
            "Learner name: ", "Sam", ". Address them by name when natural.", "\n",
            "Learner cohort: ", "c7", ".">>

\* C15: a chat is answered 500 only when the completion API was called for
\* it and the call failed; every chat that is answered neither 401 nor 400,
\* one whose temperature or max_completion_tokens is no number included,
\* calls the completion API; and no chat adds a turn to a history without
\* having called it.
C15_GatewayFailureOnly ==
    [][last'.op = "chat" =>
          /\ last'.status = 500 => (last'.call.invoked /\ last'.call.raised)
          /\ last'.status \notin {400, 401} => last'.call.invoked
          /\ user_sessions' # user_sessions => last'.call.invoked]_vars

C17_SystemTurnFirst ==
    [][/\ \A t \in DOMAIN user_sessions' :
             LET session == user_sessions'[t] IN
             session.messages[1] =
                 [role |-> "system",
                  content |-> build_system_prompt(session.meta.systemPrompt,
                                                  session.meta)]
       /\ last'.op \notin {"start", "reset"} =>
             \A t \in DOMAIN user_sessions :
                 user_sessions'[t].messages[1] = user_sessions[t].messages[1]]_vars

\* A chat with a context has failed on a session whose prompt carries the
\* learner's name, after an earlier chat on it.
C17_Witness ==
    /\ last.op = "chat"
    /\ last.status = 500
    /\ Truthy(last.req.fields.context)
    /\ user_sessions[last.token].meta.userName = Str(<<"Sam">>)
    /\ user_sessions[last.token].messages[1].content # BASE_SYSTEM_PROMPT
    /\ Len(user_sessions[last.token].messages) >= 5

\* C19: the meta, the model, the default temperature and the default
\* max_completion_tokens of a session are the ones start gave it: no chat and
\* no reset changes them, and a reset changes the history only.  The
\* temperature and max_completion_tokens of a chat's completion call are the
\* request's own when it gives them and the session's defaults, those of its
\* creation, when it does not, whatever earlier chats on the token gave.
C19_DefaultsFixed ==
    [][/\ \A t \in DOMAIN user_sessions :
             ~(last'.op = "start" /\ last'.token = t) =>
                 user_sessions'[t] =
                     [user_sessions[t] EXCEPT !.messages = user_sessions'[t].messages]
       /\ (last'.op = "chat" /\ last'.call.invoked) =>
             LET session == user_sessions[last'.token]
                 f == last'.req.fields
                 call == last'.call
             IN  /\ call.model = session.model
                 /\ session.model = DEFAULT_MODEL
                 /\ session.default_temperature = DEFAULT_TEMPERATURE
                 /\ session.default_max_completion_tokens
                       = DEFAULT_MAX_COMPLETION_TOKENS
                 /\ IF f.temperature = Absent
                    THEN call.temperature = session.default_temperature
                    ELSE f.temperature.k = "num"
                            => call.temperature = f.temperature.n
                 /\ IF f.max_completion_tokens = Absent
                    THEN call.max_completion_tokens
                            = session.default_max_completion_tokens
                    ELSE f.max_completion_tokens.k = "num"
                            => call.max_completion_tokens
                                  = f.max_completion_tokens.n]_vars

\* A chat that gave its own temperature and max_completion_tokens was
\* answered on a session with an earlier exchange: the call used them and the
\* session still has its defaults.
C19_Witness ==
    /\ last.op = "chat"
    /\ last.status = 200
    /\ last.req.fields.temperature = Num(7)
    /\ last.call.temperature = 7
    /\ last.call.max_completion_tokens = 64
    /\ user_sessions[last.token].default_temperature = DEFAULT_TEMPERATURE
    /\ Len(user_sessions[last.token].messages) = 5

\* C20: no request takes a key out of the store, and a chat or reset that
\* carries a token some start has returned is never answered 401, whatever
\* requests came before it.
C20_TokenStaysValid ==
    [][/\ DOMAIN user_sessions \subseteq DOMAIN user_sessions'
       /\ DOMAIN stats \subseteq DOMAIN user_sessions'
       /\ (last'.op \in {"chat", "reset"} /\ last'.token \in DOMAIN stats)
             => last'.status # 401]_vars

\* A chat on an issued token has failed for the second time since the
\* session's last reset, while both tokens are in the store.
C20_Witness ==
    /\ last.op = "chat"
    /\ last.status = 500
    /\ stats[last.token].failed >= 2
    /\ DOMAIN user_sessions = Tokens

----------------------------------------------------------------------------
(* Properties of the threaded server *)

\* C3: chats on one token that are in flight together do not interleave their
\* turns: when a chat is answered 200, no reset or start touched its session
\* meanwhile and no request gave a context, its user turn is the last turn it
\* sent, the history is what it sent followed by its reply, and so its reply
\* directly follows its own user turn, as if the requests had run one after
\* the other.
C3_NoInterleaving ==
    (/\ last.op = "chat"
     /\ last.status = 200
     /\ ~last.flight.reset
     /\ ~last.flight.replaced
     /\ Cardinality({i \in DOMAIN user_sessions[last.token].messages :
                        user_sessions[last.token].messages[i].role = "system"}) = 1) =>
        LET messages == user_sessions[last.token].messages
            user_at == last.flight.user_at
        IN  /\ Len(last.call.messages) = user_at
            /\ Len(messages) = user_at + 1
            /\ SubSeq(messages, 1, user_at) = last.call.messages
            /\ messages[user_at].role = "user"
            /\ messages[user_at + 1].role = "assistant"

\* C18: whatever the requests on a token do in between, a reset while a chat
\* waits for the completion API included, every assistant turn of a stored
\* history directly follows a user turn.
C18_ReplyFollowsUser ==
    \A t \in DOMAIN user_sessions :
        LET messages == user_sessions[t].messages IN
        \A i \in 1..Len(messages) :
            messages[i].role = "assistant" =>
                i > 1 /\ messages[i - 1].role = "user"

====
